---- MODULE Spec2Model ----
(***************************************************************************)
(* Model of fish.cpp: an Arduino sketch (XIAO ESP32-S3) that drives one    *)
(* Dynamixel servo along a sine wave.                                      *)
(*                                                                         *)
(*   setup()  serial ports, one ping, torque off / position mode / torque  *)
(*            on, motion profile                                           *)
(*   loop()   t = (millis() - startTime) / 1000.0                          *)
(*            position = CENTER_POS + AMPLITUDE * sin(2*M_PI*SPEED*t)      *)
(*            dxl.setGoalPosition((int)position); print; delay(20)         *)
(*                                                                         *)
(* Number representations                                                  *)
(*   unsigned long   32 bits, kept as two 16-bit limbs [hi, lo] so that    *)
(*                   the wrap at 2^32 is the real one                      *)
(*   float           24-bit significand, round to nearest even: t is the   *)
(*                   pair <<m, s>> meaning m / 2^s; position is held in    *)
(*                   Q18 on the float grid (2^-13 below 2048, 2^-12 from   *)
(*                   2048 up)                                              *)
(*   double          the intermediate double arithmetic (53 bits) is       *)
(*                   carried in Q28 fixed point; the float roundings that  *)
(*                   follow it are at least 2^5 times coarser              *)
(***************************************************************************)
EXTENDS Integers, Sequences, FiniteSets, TLC

VARIABLES
    pc,            \* control point of the sketch
    millis,        \* the hardware millisecond tick counter (unsigned long)
    startTime,     \* loop()'s static unsigned long startTime
    started,       \* the static's initialisation guard
    elapsed,       \* millis() - startTime of the latest iteration
    position,      \* loop()'s float position (Q18)
    goalPosition,  \* last value handed to dxl.setGoalPosition, NoGoal before
    printed,       \* last value printed after "Goal: ", NoGoal before
    calls,         \* the calls setup() has made, in order
    pingResult,    \* "none", "ok" or "fail"
    torque,        \* "unset", "off", "on": last torque command sent
    opMode,        \* "unset", "position": last operating mode sent
    diag,          \* last message line setup() printed
    writes,        \* setGoalPosition calls so far: 0, 1, or 2 for "more"
    startAssigns   \* assignments to startTime so far: 0, 1, or 2 for "more"

vars == <<pc, millis, startTime, started, elapsed, position, goalPosition,
          printed, calls, pingResult, torque, opMode, diag, writes,
          startAssigns>>

----------------------------------------------------------------------------
(* Bounds of the exploration *)

\* horizon: the clock is followed for this many ms after the first state
MaxUptime == 5300
\* a loop iteration takes delay(20) plus 0..Jitter ms of bus and print time
Jitter == 1
\* ms ticks that can fall between the two millis() reads of the first loop()
ReadSkew == 1
\* ms that setup() can take before loop() first runs
PingMax == 2
\* horizon of FairSpec, in ms
LiveUptime == 400
\* SpecWrap starts this many ms before the tick counter wraps
WrapLead == 100

----------------------------------------------------------------------------
(* Program constants *)

CENTER_POS == 2048
AMPLITUDE == 400
\* SPEED = 0.5 Hz = 1 / SPEED_DEN
SPEED_DEN == 2
DELAY_MS == 20
MS_PER_S == 1000
\* M_PI in Q28
PI_Q28 == 843314857

NoGoal == -1

----------------------------------------------------------------------------
(* unsigned long: 32-bit arithmetic on 16-bit limbs *)

W16 == 2^16

U32FromNat(n) == [hi |-> (n \div W16) % W16, lo |-> n % W16]

U32Zero == U32FromNat(0)

\* x + n mod 2^32, for a small n
U32Add(x, n) ==
    LET s == x.lo + n
    IN  [hi |-> (x.hi + (s \div W16)) % W16, lo |-> s % W16]

\* a - b mod 2^32
U32Sub(a, b) ==
    LET l == a.lo - b.lo
        borrow == IF l < 0 THEN 1 ELSE 0
    IN  [hi |-> (a.hi - b.hi - borrow) % W16, lo |-> l % W16]

U32Le(a, b) == a.hi < b.hi \/ (a.hi = b.hi /\ a.lo <= b.lo)

\* quotient and remainder of a 32-bit value by a divisor below 2^15
U32DivMod(x, d) ==
    LET qh  == x.hi \div d
        mid == (x.hi % d) * W16 + x.lo
    IN  [q |-> qh * W16 + (mid \div d), r |-> mid % d]

----------------------------------------------------------------------------
(* float t = (millis() - startTime) / 1000.0 *)

\* shift q + r/1000 left until the significand q has 24 bits
Normalize[q \in Nat, r \in Nat, s \in Nat] ==
    IF q >= 2^23
    THEN [m |-> q, r |-> r, s |-> s]
    ELSE Normalize[2 * q + (IF 2 * r >= MS_PER_S THEN 1 ELSE 0),
                   (2 * r) % MS_PER_S, s + 1]

\* the bug of dividing in integers, (millis() - startTime) / 1000: whole seconds
FloatOfMillis_IntDiv(e) == <<U32DivMod(e, MS_PER_S).q, 0>>

\* e / 1000.0 rounded to float: <<m, s>> with value m / 2^s
FloatOfMillis(e) ==
    IF e = U32Zero THEN <<0, 0>>
    ELSE LET d  == U32DivMod(e, MS_PER_S)
             n  == Normalize[d.q, d.r, 0]
             up == 2 * n.r > MS_PER_S \/ (2 * n.r = MS_PER_S /\ n.m % 2 = 1)
             m  == IF up THEN n.m + 1 ELSE n.m
         IN  IF m = 2^24 THEN <<2^23, n.s - 1>> ELSE <<m, n.s>>

----------------------------------------------------------------------------
(* sin(2 * M_PI * SPEED * t) *)

ONE == 2^28
L14 == 2^14

\* floor(a * b / 2^28) for 0 <= a, b, without leaving 31 bits
MulQ[a \in Nat, b \in Nat] ==
    LET a1 == a \div L14
        a0 == a % L14
        b1 == b \div L14
        b0 == b % L14
    IN  a1 * b1 + ((a1 * b0 + a0 * b1 + ((a0 * b0) \div L14)) \div L14)

\* the bug of dropping the factor 2, sin(M_PI * SPEED * t): SPEED * t mod 2
Phase_NoTwo(t) ==
    LET m == t[1] * (2 \div SPEED_DEN)
        s == t[2] + 1
    IN  IF s <= 28 THEN (m % 2^(s + 1)) * 2^(28 - s)
        ELSE (m \div 2^(s - 28)) % (2 * ONE)

\* 2 * SPEED * t mod 2: the angle in half turns, Q28 in [0, 2)
Phase(t) ==
    LET m == t[1] * (2 \div SPEED_DEN)
        s == t[2]
    IN  IF s <= 28 THEN (m % 2^(s + 1)) * 2^(28 - s)
        ELSE (m \div 2^(s - 28)) % (2 * ONE)

\* 1 - w/(k(k+1)) * (1 - w/((k+2)(k+3)) * (...)), the series of sin(y)/y in w = y^2
SinTail[w \in Nat, k \in Nat] ==
    IF k > 14 THEN ONE
    ELSE ONE - (MulQ[w, SinTail[w, k + 2]] \div (k * (k + 1)))

\* sin(y) for y in [0, pi/2], Q28
SinSeries[y \in Nat] == MulQ[y, SinTail[MulQ[y, y], 2]]

\* sin(pi * u) for u in [0, 2) half turns: reduce to the first quadrant
SinPi[u \in Nat] ==
    LET neg == u >= ONE
        u1  == IF neg THEN u - ONE ELSE u
        v   == IF u1 > ONE \div 2 THEN ONE - u1 ELSE u1
        s   == SinSeries[MulQ[PI_Q28, v]]
    IN  IF neg THEN -s ELSE s

----------------------------------------------------------------------------
(* float position = CENTER_POS + AMPLITUDE * sin(...);  (int)position *)

FP == 2^18

\* the bug of taking AMPLITUDE for half the swing: CENTER_POS + 2 * AMPLITUDE * s
PositionOf_Doubled(s) ==
    CENTER_POS * FP + 2 * AMPLITUDE * (s \div 2^10)
        + ((2 * AMPLITUDE * (s % 2^10)) \div 2^10)

\* CENTER_POS + AMPLITUDE * s in double, Q18
PositionOf(s) ==
    CENTER_POS * FP + AMPLITUDE * (s \div 2^10)
        + ((AMPLITUDE * (s % 2^10)) \div 2^10)

\* the double rounded to float: nearest point of the float grid, ties to even
ToFloat[p \in Nat] ==
    LET g == IF p >= 2^11 * FP THEN FP \div 2^12 ELSE FP \div 2^13
        k == p \div g
        r == p % g
        up == 2 * r > g \/ (2 * r = g /\ k % 2 = 1)
    IN  (IF up THEN k + 1 ELSE k) * g

\* lines 48-51: the float position for an elapsed tick count
Position(e) == ToFloat[PositionOf(SinPi[Phase(FloatOfMillis(e))])]

\* (int)position: truncation (position is positive)
IntCast(p) == p \div FP

----------------------------------------------------------------------------
(* setup() *)

SetupOrder ==
    <<"Serial.begin", "DXL_SERIAL.begin", "dxl.begin",
      "dxl.setPortProtocolVersion", "dxl.ping", "dxl.torqueOff",
      "dxl.setOperatingMode", "dxl.torqueOn", "PROFILE_VELOCITY",
      "PROFILE_ACCELERATION">>

Init ==
    /\ pc = "setup"
    /\ millis = U32Zero
    /\ startTime = U32Zero
    /\ started = FALSE
    /\ elapsed = U32Zero
    /\ position = 0
    /\ goalPosition = NoGoal
    /\ printed = NoGoal
    /\ calls = <<>>
    /\ pingResult = "none"
    /\ torque = "unset"
    /\ opMode = "unset"
    /\ diag = "none"
    /\ writes = 0
    /\ startAssigns = 0

\* lines 23-26: both serial ports, the Dynamixel port and its protocol version
SetupSerial ==
    /\ pc = "setup"
    /\ calls' = <<"Serial.begin", "DXL_SERIAL.begin", "dxl.begin",
                  "dxl.setPortProtocolVersion">>
    /\ pc' = "ping"
    /\ UNCHANGED <<millis, startTime, started, elapsed, position,
                   goalPosition, printed, pingResult, torque, opMode, diag,
                   writes, startAssigns>>

\* the bug of leaving out while (true); after the message
SetupPing_FallThrough ==
    /\ pc = "ping"
    /\ \E ok \in BOOLEAN, b \in 0..PingMax :
          /\ calls' = Append(calls, "dxl.ping")
          /\ millis' = U32Add(millis, b)
          /\ pingResult' = IF ok THEN "ok" ELSE "fail"
          /\ diag' = IF ok THEN diag ELSE "Motor not responding. Check wiring and ID."
          /\ pc' = "torqueOff"
    /\ UNCHANGED <<startTime, started, elapsed, position, goalPosition,
                   printed, torque, opMode, writes, startAssigns>>

\* lines 28-31: one ping; without an answer, the message and while (true);
SetupPing ==
    /\ pc = "ping"
    /\ \E ok \in BOOLEAN, b \in 0..PingMax :
          /\ calls' = Append(calls, "dxl.ping")
          /\ millis' = U32Add(millis, b)
          /\ pingResult' = IF ok THEN "ok" ELSE "fail"
          /\ diag' = IF ok THEN diag ELSE "Motor not responding. Check wiring and ID."
          /\ pc' = IF ok THEN "torqueOff" ELSE "halted"
    /\ UNCHANGED <<startTime, started, elapsed, position, goalPosition,
                   printed, torque, opMode, writes, startAssigns>>

\* line 30: while (true);
Spin ==
    /\ pc = "halted"
    /\ UNCHANGED vars

\* line 33
SetupTorqueOff ==
    /\ pc = "torqueOff"
    /\ calls' = Append(calls, "dxl.torqueOff")
    /\ torque' = "off"
    /\ pc' = "opMode"
    /\ UNCHANGED <<millis, startTime, started, elapsed, position,
                   goalPosition, printed, pingResult, opMode, diag, writes,
                   startAssigns>>

\* line 34
SetupOperatingMode ==
    /\ pc = "opMode"
    /\ calls' = Append(calls, "dxl.setOperatingMode")
    /\ opMode' = "position"
    /\ pc' = "torqueOn"
    /\ UNCHANGED <<millis, startTime, started, elapsed, position,
                   goalPosition, printed, pingResult, torque, diag, writes,
                   startAssigns>>

\* the bug of leaving out dxl.torqueOn
SetupTorqueOn_Skipped ==
    /\ pc = "torqueOn"
    /\ pc' = "profile"
    /\ UNCHANGED <<millis, startTime, started, elapsed, position,
                   goalPosition, printed, calls, pingResult, torque, opMode,
                   diag, writes, startAssigns>>

\* line 35
SetupTorqueOn ==
    /\ pc = "torqueOn"
    /\ calls' = Append(calls, "dxl.torqueOn")
    /\ torque' = "on"
    /\ pc' = "profile"
    /\ UNCHANGED <<millis, startTime, started, elapsed, position,
                   goalPosition, printed, pingResult, opMode, diag, writes,
                   startAssigns>>

\* lines 38-41: the two profile writes and the last message; setup() returns
SetupProfile ==
    /\ pc = "profile"
    /\ calls' = calls \o <<"PROFILE_VELOCITY", "PROFILE_ACCELERATION">>
    /\ diag' = "Sine wave motion initialized."
    /\ pc' = "loop"
    /\ UNCHANGED <<millis, startTime, started, elapsed, position,
                   goalPosition, printed, pingResult, torque, opMode, writes,
                   startAssigns>>

----------------------------------------------------------------------------
(* loop() *)

Bump(n) == IF n < 2 THEN n + 1 ELSE 2

\* the bug of leaving out `static`: startTime is set by every call
StartTimeOf_NotStatic(isStarted, old, now) == now

\* line 45: the static is initialised from millis() by the first call only
StartTimeOf(isStarted, old, now) == IF isStarted THEN old ELSE now

\* line 48: millis() - startTime
ElapsedOf(now, st) == U32Sub(now, st)

\* lines 45-54: read the clock, compute the position, write the goal.
\* The first call reads millis() twice (lines 45 and 48); 0..ReadSkew ticks
\* may fall between the two reads.
LoopWrite ==
    /\ pc = "loop"
    /\ \E skew \in 0..ReadSkew :
          /\ started => skew = 0
          /\ LET st  == StartTimeOf(started, startTime, millis)
                 now == U32Add(millis, skew)
                 e   == ElapsedOf(now, st)
                 p   == Position(e)
             IN  /\ startTime' = st
                 /\ millis' = now
                 /\ elapsed' = e
                 /\ position' = p
                 /\ goalPosition' = IntCast(p)
    /\ started' = TRUE
    /\ startAssigns' = IF started /\ startTime' = startTime
                       THEN startAssigns ELSE Bump(startAssigns)
    /\ writes' = Bump(writes)
    /\ pc' = "print"
    /\ UNCHANGED <<printed, calls, pingResult, torque, opMode, diag>>

\* lines 57-58
LoopPrint ==
    /\ pc = "print"
    /\ printed' = IntCast(position)
    /\ pc' = "delay"
    /\ UNCHANGED <<millis, startTime, started, elapsed, position,
                   goalPosition, calls, pingResult, torque, opMode, diag,
                   writes, startAssigns>>

\* the bug of leaving out delay(20)
SleepTimes_NoDelay == {j : j \in 0..Jitter}

\* how long one pass of lines 54-60 takes: delay(20) and 0..Jitter ms more
SleepTimes == {DELAY_MS + j : j \in 0..Jitter}

\* line 60; the clock is followed up to `horizon` ms after `origin`
LoopDelay(origin, horizon) ==
    /\ pc = "delay"
    /\ \E d \in SleepTimes :
          /\ millis' = U32Add(millis, d)
          /\ U32Le(U32Sub(millis', origin), U32FromNat(horizon))
    /\ pc' = "loop"
    /\ UNCHANGED <<startTime, started, elapsed, position, goalPosition,
                   printed, calls, pingResult, torque, opMode, diag, writes,
                   startAssigns>>

----------------------------------------------------------------------------
(* The sketch from reset *)

Next ==
    \/ SetupSerial
    \/ SetupPing
    \/ Spin
    \/ SetupTorqueOff
    \/ SetupOperatingMode
    \/ SetupTorqueOn
    \/ SetupProfile
    \/ LoopWrite
    \/ LoopPrint
    \/ LoopDelay(U32Zero, MaxUptime)

Spec == Init /\ [][Next]_vars

\* The same sketch followed for LiveUptime ms, with the scheduling of the
\* Arduino core: it calls loop() again whenever it returns, and delay() returns
NextLive ==
    \/ SetupSerial
    \/ SetupPing
    \/ Spin
    \/ SetupTorqueOff
    \/ SetupOperatingMode
    \/ SetupTorqueOn
    \/ SetupProfile
    \/ LoopWrite
    \/ LoopPrint
    \/ LoopDelay(U32Zero, LiveUptime)

FairSpec == Init /\ [][NextLive]_vars /\ WF_vars(NextLive)

----------------------------------------------------------------------------
(* The sketch after 2^32 - WrapLead ms of running: the state just after an *)
(* iteration's print, with the tick counter about to wrap                  *)

WrapOrigin == U32Sub(U32Zero, U32FromNat(WrapLead))

InitWrap ==
    /\ pc = "delay"
    /\ millis = WrapOrigin
    /\ startTime \in {U32FromNat(b) : b \in 0..PingMax}
    /\ started = TRUE
    /\ elapsed = ElapsedOf(millis, startTime)
    /\ position = Position(elapsed)
    /\ goalPosition = IntCast(position)
    /\ printed = IntCast(position)
    /\ calls = SetupOrder
    /\ pingResult = "ok"
    /\ torque = "on"
    /\ opMode = "position"
    /\ diag = "Sine wave motion initialized."
    /\ writes = 2
    /\ startAssigns = 1

NextWrap ==
    \/ LoopWrite
    \/ LoopPrint
    \/ LoopDelay(WrapOrigin, MaxUptime)

SpecWrap == InitWrap /\ [][NextWrap]_vars

----------------------------------------------------------------------------
(* Vocabulary of the properties *)

SetupPcs == {"setup", "ping", "torqueOff", "opMode", "torqueOn", "profile"}
LoopPcs == {"loop", "print", "delay"}

\* one period 1/SPEED and half of it, in ms
PERIOD_MS == MS_PER_S * SPEED_DEN
HALF_PERIOD_MS == PERIOD_MS \div 2

IsPrefix(s, t) == Len(s) <= Len(t) /\ s = SubSeq(t, 1, Len(s))

\* the goal the sketch writes at an elapsed tick count
GoalAt(e) == IntCast(Position(e))

\* 2 * SPEED * e/1000 mod 2 for the exact (unrounded) time, Q28
ExactPhase(e) ==
    LET r  == U32DivMod(e, PERIOD_MS).r
        a  == r * L14
        q1 == a \div HALF_PERIOD_MS
        r1 == a % HALF_PERIOD_MS
    IN  q1 * L14 + ((r1 * L14) \div HALF_PERIOD_MS)

\* round(center + amplitude * sin(2 pi f t)): the value to the nearest integer
RoundedReference(e) == (PositionOf(SinPi[ExactPhase(e)]) + FP \div 2) \div FP

----------------------------------------------------------------------------
(* C1: every goal position handed to dxl.setGoalPosition lies within       *)
(* [CENTER_POS - AMPLITUDE, CENTER_POS + AMPLITUDE] = [1648, 2448].        *)
C1_GoalInRange ==
    goalPosition # NoGoal =>
        /\ CENTER_POS - AMPLITUDE <= goalPosition
        /\ goalPosition <= CENTER_POS + AMPLITUDE

\* a write at the top of the swing
C1_Witness ==
    pc = "print" /\ goalPosition = CENTER_POS + AMPLITUDE

(* C2: the goal written at elapsed time t equals the goal computed at      *)
(* t + one period (2000 ms), for every elapsed time the loop measures.     *)
C2_Periodic ==
    pc = "print" => goalPosition = GoalAt(U32Add(elapsed, PERIOD_MS))

(* C3: at every elapsed time that is a whole multiple of half a period     *)
(* (0 s, 1 s, 2 s, ...) the goal written is CENTER_POS.                    *)
C3_CenterAtHalfPeriods ==
    (pc = "print" /\ U32DivMod(elapsed, HALF_PERIOD_MS).r = 0)
        => goalPosition = CENTER_POS

\* a write three half periods after the start
C3_Witness ==
    /\ pc = "print"
    /\ elapsed = U32FromNat(3 * HALF_PERIOD_MS)
    /\ goalPosition = CENTER_POS

(* C4: the goal written is 2048 at elapsed 0 s, 2448 at 0.5 s, 2048 at     *)
(* 1.0 s and 1648 at 1.5 s.                                                *)
C4_ConcretePoints ==
    pc = "print" =>
        /\ elapsed = U32FromNat(0) => goalPosition = 2048
        /\ elapsed = U32FromNat(500) => goalPosition = 2448
        /\ elapsed = U32FromNat(1000) => goalPosition = 2048
        /\ elapsed = U32FromNat(1500) => goalPosition = 1648

\* the write at 1.5 s, the bottom of the swing
C4_Witness ==
    pc = "print" /\ elapsed = U32FromNat(1500) /\ goalPosition = 1648

(* C5: the goal written at elapsed time t is the real-valued position      *)
(* center + amplitude * sin(2 pi f t) rounded to the nearest integer.      *)
C5_RoundedToNearest ==
    pc = "print" => goalPosition = RoundedReference(elapsed)

(* C6: when the one ping of setup() is not answered, the sketch prints the *)
(* message and halts for good: the ping was the last call it made, no      *)
(* torque, operating mode or profile command and no goal position follows. *)
C6_HaltOnPingFailure ==
    pingResult = "fail" =>
        /\ pc = "halted"
        /\ diag = "Motor not responding. Check wiring and ID."
        /\ calls = SubSeq(SetupOrder, 1, 5)
        /\ torque = "unset"
        /\ opMode = "unset"
        /\ goalPosition = NoGoal
        /\ printed = NoGoal
        /\ writes = 0
        /\ ~started

\* the halted sketch
C6_Witness ==
    pingResult = "fail" /\ pc = "halted" /\ calls[Len(calls)] = "dxl.ping"

(* C7: the calls of setup() come in the one order serial ports, ping,      *)
(* torque off, position mode, torque on, profile; the mode is set with     *)
(* torque off; and a goal position is written only after all of them, with *)
(* the ping answered, the mode set to position and torque on.              *)
C7_StartupOrder ==
    /\ IsPrefix(calls, SetupOrder)
    /\ (Len(calls) >= 5) <=> (pingResult # "none")
    /\ (opMode = "position") <=> (Len(calls) >= 7)
    /\ (torque = "off") <=> (Len(calls) \in {6, 7})
    /\ (torque = "on") <=> (Len(calls) >= 8)
    /\ (writes > 0 \/ goalPosition # NoGoal \/ pc \in LoopPcs) =>
          /\ calls = SetupOrder
          /\ pingResult = "ok"
          /\ opMode = "position"
          /\ torque = "on"

\* the first goal write, after the whole of setup()
C7_Witness ==
    writes = 1 /\ pc = "print" /\ calls = SetupOrder /\ torque = "on"

(* C8: once the ping is answered the loop never ends: every iteration      *)
(* writes one goal, prints that same value and sleeps, successive writes   *)
(* are at least DELAY_MS apart, and another write always follows (as far   *)
(* as the clock is followed).                                              *)
C8_Room == U32Le(U32Add(millis, DELAY_MS), U32FromNat(LiveUptime))

C8_Stays == pc \in LoopPcs => pc' \in LoopPcs

C8_WriteStep == pc = "loop" => (pc' = "print" /\ writes' = Bump(writes))

C8_PrintStep ==
    pc = "print" =>
        (pc' = "delay" /\ writes' = writes /\ goalPosition' = goalPosition)

C8_DelayStep ==
    pc = "delay" => (pc' = "loop" /\ writes' = writes /\ printed' = printed)

C8_Apart ==
    (pc = "loop" /\ writes > 0) =>
        U32Le(U32FromNat(DELAY_MS), U32Sub(elapsed', elapsed))

C8_LoopForever ==
    /\ [](pc = "print" => goalPosition = IntCast(position))
    /\ [](pc = "delay" => (printed = goalPosition /\ printed # NoGoal))
    /\ [][C8_Stays]_vars
    /\ [][C8_WriteStep]_vars
    /\ [][C8_PrintStep]_vars
    /\ [][C8_DelayStep]_vars
    /\ [][C8_Apart]_vars
    /\ ((pingResult = "ok" /\ pc # "print" /\ (pc = "delay" => C8_Room))
          ~> (pc = "print"))

\* an iteration after the first, written and printed
C8_Witness ==
    pc = "delay" /\ writes = 2 /\ printed = goalPosition

(* C9: the elapsed time millis() - startTime never decreases from one loop *)
(* iteration to the next, the wrap of the tick counter included.           *)
C9_ElapsedMonotonic == [][U32Le(elapsed, elapsed')]_vars

(* C10, as claimed: startTime is assigned once, by the first loop() and    *)
(* not by setup(), never again, and the first iteration measures elapsed 0 *)
(* and writes CENTER_POS.                                                  *)
C10_SetOnceStartsAtCenter ==
    /\ pc \in SetupPcs \cup {"halted"} => (startAssigns = 0 /\ ~started)
    /\ writes >= 1 => (startAssigns = 1 /\ started)
    /\ writes = 1 => (elapsed = U32Zero /\ goalPosition = CENTER_POS)

(* C10, amended: startTime is assigned once, by the first loop() and not   *)
(* by setup(), never again; the first iteration measures the ticks that    *)
(* fell between its two millis() reads, and writes CENTER_POS when none    *)
(* did and CENTER_POS + 1 when one did.                                    *)
C10_SetOnceFirstElapsedIsSkew ==
    /\ pc \in SetupPcs \cup {"halted"} => (startAssigns = 0 /\ ~started)
    /\ writes >= 1 => (startAssigns = 1 /\ started)
    /\ writes = 1 =>
          /\ U32Le(elapsed, U32FromNat(ReadSkew))
          /\ elapsed = U32FromNat(0) => goalPosition = CENTER_POS
          /\ elapsed = U32FromNat(1) => goalPosition = CENTER_POS + 1

\* a first iteration with one tick between the two reads
C10_Witness ==
    /\ writes = 1
    /\ startAssigns = 1
    /\ elapsed = U32FromNat(1)
    /\ goalPosition = CENTER_POS + 1

====
